---- MODULE Spec2Model ----
(***************************************************************************)
(* Animal shelter: the cat-plus-photos lifecycle of src/cats/service.py    *)
(* over a relational store (cats, photos) and the Google Drive gateway of  *)
(* src/cats/utils.py.                                                      *)
(*                                                                         *)
(* Statuses are strings: "ok", the HTTPException codes "400" "401" "404"   *)
(* "500", and the exceptions that are no HTTPException: "ValueError",      *)
(* "TypeError", "DBError" (an error of the database driver).               *)
(***************************************************************************)
EXTENDS Integers, Sequences, FiniteSets, TLC

\* ------------------------------------------------------------------ bounds
MaxCatId == 2        \* cat ids handed out by the cats sequence
MaxPhotoId == 2      \* photo ids handed out by the photos sequence
MaxLen == 1          \* length of the ordinary file lists of a request
MaxFaultAt == 4      \* a remote fault hits one of the first MaxFaultAt calls
MaxDbFaultAt == 4    \* a database fault hits one of the first MaxDbFaultAt calls
MaxSteps == 3        \* requests per behaviour

\* -------------------------------------------------------- program constants
MaxPhotos == 10                  \* service.py:84
MaxPhotoSize == 5242880          \* service.py:89, 5 * 1024 * 1024
None == 0                        \* Python's None, for a nullable id

Names == {"Tom", "Leo"}
Ages == {2, 3}
Genders == {"male"}
Abouts == {"friendly"}
Times == {1}

\* ------------------------------------------------------------ upload files
\* An UploadFile: the extension of its filename, whether its content type
\* starts with "image/", and its size in bytes.
Extensions == {".jpg", ".PNG", ".txt"}

Lower(ext) == IF ext = ".PNG" THEN ".png" ELSE ext

allowed_extensions == {".jpg", ".jpeg", ".png", ".gif"}

GoodFile == [ext |-> ".jpg", image |-> TRUE, size |-> MaxPhotoSize]
UpperFile == [ext |-> ".PNG", image |-> TRUE, size |-> MaxPhotoSize]
TextFile == [ext |-> ".txt", image |-> FALSE, size |-> MaxPhotoSize]
BigFile == [ext |-> ".jpg", image |-> TRUE, size |-> MaxPhotoSize + 1]

FileKinds == {GoodFile, UpperFile, TextFile, BigFile}

Repeat(f, n) == [i \in 1..n |-> f]

SeqsUpTo(S, n) == UNION {[1..k -> S] : k \in 0..n}

\* files of a request: isNone is the router's File(None) default.
NoFiles == [isNone |-> TRUE, items |-> <<>>]
Given(items) == [isNone |-> FALSE, items |-> items]

SmallFileLists == {NoFiles} \cup {Given(l) : l \in SeqsUpTo(FileKinds, MaxLen)}

LimitFileLists ==
    {Given(Repeat(GoodFile, n)) : n \in {1, MaxPhotos, MaxPhotos + 1}}
    \cup {Given(Repeat(GoodFile, MaxPhotos) \o <<TextFile>>)}

\* ------------------------------------------------------------------ faults
\* At most one injected fault per request: the at-th remote call raises
\* (an HttpError of status 401, 404 or another status, or any other
\* exception), or the at-th awaited database call raises.
NoFault == [where |-> "none", kind |-> "none", at |-> 0]

RemoteKinds == {"http401", "http404", "http_other", "exception"}

RemoteFaults ==
    {[where |-> "remote", kind |-> k, at |-> n] : k \in RemoteKinds, n \in 1..MaxFaultAt}

DbFaults == {[where |-> "db", kind |-> "db", at |-> n] : n \in 1..MaxDbFaultAt}

Faults == {NoFault} \cup RemoteFaults \cup DbFaults

Raises(fault, n) == fault.where = "remote" /\ fault.at = n

DbRaises(fault, n) == fault.where = "db" /\ fault.at = n

\* The order in which the store lists matching entries (files().list has
\* no orderBy): by ascending or descending id.
Orders == {"asc", "desc"}

Min(S) == CHOOSE x \in S : \A y \in S : x <= y
Max(S) == CHOOSE x \in S : \A y \in S : x >= y

First(ids, ord) == IF ord = "asc" THEN Min(ids) ELSE Max(ids)

RECURSIVE Listing(_, _)
Listing(ids, ord) ==
    IF ids = {} THEN <<>>
    ELSE LET x == First(ids, ord) IN <<x>> \o Listing(ids \ {x}, ord)

\* ------------------------------------------------------- the external store
\* folders: [id, name, parent]; files: [id, parent]; next: the next fresh id.
\* A folder name is a pair: the root is "Photos of cats", a cat's folder is
\* f"{cat_id} - {cat_name}".
RootName == <<0, "Photos of cats">>

CatFolderName(cat_id, cat_name) == <<cat_id, cat_name>>

EmptyDrive == [folders |-> {}, files |-> {}, next |-> 1]

\* The except clauses of every gateway function: an HttpError 401 or 404 is
\* raised as that HTTPException, an HttpError of another status falls out of
\* the handler and the function returns None, anything else becomes a 500.
HttpErrorHandler(kind) ==
    CASE kind = "http401" -> "401"
      [] kind = "http404" -> "404"
      [] kind = "http_other" -> "None"
      [] OTHER -> "500"

\* files().list(q = folder and name [and parents]) then files().create:
\* lines 50-73 (parent = None: any parent) and 75-98.
\* base: remote calls made before. Returns the folder id, or the raised kind.
FoundFolders(drive, name, parent) ==
    {f.id : f \in {g \in drive.folders :
                g.name = name /\ (parent = None \/ g.parent = parent)}}

\* files().create of a folder; the store does not keep names unique.
CreateFolderIfAbsent(drive, name, parent) ==
    IF FoundFolders(drive, name, parent) # {}
    THEN drive
    ELSE [drive EXCEPT
            !.folders = @ \cup {[id |-> drive.next, name |-> name, parent |-> parent]},
            !.next = @ + 1]

CreateFolder(drive, name, parent) ==
    [drive EXCEPT
        !.folders = @ \cup {[id |-> drive.next, name |-> name, parent |-> parent]},
        !.next = @ + 1]

EnsureFolder(drive, name, parent, fault, base, ord) ==
    LET found == FoundFolders(drive, name, parent)
    IN  IF Raises(fault, base + 1)
        THEN [drive |-> drive, err |-> fault.kind, id |-> None, calls |-> base + 1]
        ELSE IF found # {}
        THEN [drive |-> drive, err |-> "none", id |-> First(found, ord), calls |-> base + 1]
        ELSE IF Raises(fault, base + 2)
        THEN [drive |-> drive, err |-> fault.kind, id |-> None, calls |-> base + 2]
        ELSE [drive |-> CreateFolder(drive, name, parent),
              err |-> "none", id |-> drive.next, calls |-> base + 2]

\* The upload loop, lines 101-115: one files().create per file.
UploadFiles(drive, folder_id, n, fault, base) ==
    LET hit == fault.where = "remote" /\ fault.at > base /\ fault.at <= base + n
        k == IF hit THEN fault.at - base - 1 ELSE n
        ids == [i \in 1..k |-> drive.next + i - 1]
    IN  [drive |-> [drive EXCEPT
                       !.files = @ \cup {[id |-> ids[i], parent |-> folder_id] : i \in 1..k},
                       !.next = @ + k],
         err |-> IF hit THEN fault.kind ELSE "none",
         ids |-> ids,
         calls |-> IF hit THEN fault.at ELSE base + n]

\* url = f"https://drive.google.com/uc?id={file.get('id')}": the text on
\* either side of its "=".
Url(file_id) == <<"https://drive.google.com/uc?id", file_id>>

\* url.split("=")[1]
google_file_id(url) == url[2]

\* cause: what made the gateway fail: the kind of the error a remote call
\* raised, "missing" for a lookup that found nothing, "argument" for an
\* error raised before any call, "none".
GwFail(drive, cause, out, calls) ==
    [drive |-> drive, out |-> out, cause |-> cause, urls |-> <<>>,
     folder_id |-> None, calls |-> calls]

GwOut(drive, cause, out, calls) ==
    [drive |-> drive, out |-> out, cause |-> cause, calls |-> calls]

\* lines 75-98, after the root folder: its id is the parent of the cat's.
EnsureCatFolder(root, cat_id, cat_name, fault, ord) ==
    IF root.err # "none" THEN root
    ELSE EnsureFolder(root.drive, CatFolderName(cat_id, cat_name), root.id,
                      fault, root.calls, ord)

\* lines 117-130: the return value, or what the except clauses raise.
Uploaded(up, folder_id) ==
    IF up.err # "none"
    THEN GwFail(up.drive, up.err, HttpErrorHandler(up.err), up.calls)
    ELSE [drive |-> up.drive, out |-> "ok", cause |-> "none",
          urls |-> [i \in 1..Len(up.ids) |-> Url(up.ids[i])],
          folder_id |-> folder_id, calls |-> up.calls]

\* lines 100-115, after the two folders. for file in None is a TypeError,
\* caught by except Exception.
UploadInto(cf, files, fault) ==
    IF cf.err # "none"
    THEN GwFail(cf.drive, cf.err, HttpErrorHandler(cf.err), cf.calls)
    ELSE IF files.isNone
    THEN GwFail(cf.drive, "argument", "500", cf.calls)
    ELSE Uploaded(UploadFiles(cf.drive, cf.id, Len(files.items), fault, cf.calls), cf.id)

upload_photos_to_google_drive(drive, files, cat_id, cat_name, fault, ord) ==
    UploadInto(EnsureCatFolder(EnsureFolder(drive, RootName, None, fault, 0, ord),
                               cat_id, cat_name, fault, ord),
               files, fault)

\* files().delete of each listed file, lines 167-168, in listing order.
DeleteFiles(drive, ids, fault, base, ord) ==
    LET n == Cardinality(ids)
        order == Listing(ids, ord)
        hit == fault.where = "remote" /\ fault.at > base /\ fault.at <= base + n
        k == IF hit THEN fault.at - base - 1 ELSE n
        gone == {order[i] : i \in 1..k}
    IN  [drive |-> [drive EXCEPT !.files = {f \in @ : f.id \notin gone}],
         err |-> IF hit THEN fault.kind ELSE "none",
         calls |-> IF hit THEN fault.at ELSE base + n]

\* lines 170-171, after the files: files().delete of the folder.
DeleteFolder(del, google_folder_id, fault) ==
    IF del.err # "none"
    THEN GwOut(del.drive, del.err, HttpErrorHandler(del.err), del.calls)
    ELSE IF Raises(fault, del.calls + 1)
    THEN GwOut(del.drive, fault.kind, HttpErrorHandler(fault.kind), del.calls + 1)
    ELSE GwOut([del.drive EXCEPT !.folders = {f \in @ : f.id # google_folder_id}],
               "none", "ok", del.calls + 1)

\* lines 159-171, in the folder found: list its files, delete them and it.
DeleteFolderRecursive(drive, google_folder_id, fault, ord) ==
    IF Raises(fault, 2)
    THEN GwOut(drive, fault.kind, HttpErrorHandler(fault.kind), 2)
    ELSE DeleteFolder(
            DeleteFiles(drive, {f.id : f \in {g \in drive.files : g.parent = google_folder_id}},
                        fault, 2, ord),
            google_folder_id, fault)

\* The folder is looked up by name alone. The HTTPException(404) of line 154
\* is raised inside the try and caught by except Exception.
FoldersNamed(drive, name) == {f.id : f \in {g \in drive.folders : g.name = name}}

delete_photos_from_drive(drive, cat_id, cat_name, fault, ord) ==
    IF Raises(fault, 1)
    THEN GwOut(drive, fault.kind, HttpErrorHandler(fault.kind), 1)
    ELSE IF FoldersNamed(drive, CatFolderName(cat_id, cat_name)) = {}
    THEN GwOut(drive, "missing", "500", 1)
    ELSE DeleteFolderRecursive(
            drive, First(FoldersNamed(drive, CatFolderName(cat_id, cat_name)), ord),
            fault, ord)

\* files().update(fileId = folder_id, body = {name}). The client library
\* drops a None argument and then raises TypeError for the missing
\* required fileId, before any request is sent; the store answers an
\* unknown id with an HttpError 404.
update_google_folder_name(drive, folder_id, cat_id, new_name, fault) ==
    IF folder_id = None
    THEN GwOut(drive, "argument", "500", 0)
    ELSE IF Raises(fault, 1)
    THEN GwOut(drive, fault.kind, HttpErrorHandler(fault.kind), 1)
    ELSE IF folder_id \notin {f.id : f \in drive.folders}
    THEN GwOut(drive, "http404", HttpErrorHandler("http404"), 1)
    ELSE GwOut([drive EXCEPT !.folders =
                    {IF f.id = folder_id
                     THEN [f EXCEPT !.name = CatFolderName(cat_id, new_name)]
                     ELSE f : f \in @}],
               "none", "ok", 1)

delete_google_drive_file(drive, file_id, fault) ==
    IF Raises(fault, 1)
    THEN GwOut(drive, fault.kind, HttpErrorHandler(fault.kind), 1)
    ELSE IF file_id \notin {f.id : f \in drive.files}
    THEN GwOut(drive, "http404", HttpErrorHandler("http404"), 1)
    ELSE GwOut([drive EXCEPT !.files = {f \in @ : f.id # file_id}], "none", "ok", 1)

\* ------------------------------------------------------ the relational store
\* db: the committed rows and the two id sequences (a sequence value that
\* was handed out is not handed out again, also after a rollback).
\* cats rows: models.py Cat; photos rows: [id, url, cat_id, google_file_id].
EmptyDb == [cats |-> {}, photos |-> {}, seqCat |-> 1, seqPhoto |-> 1]

CatIds(cats) == {c.id : c \in cats}

\* A session's pending work, sent on flush() and made durable by commit().
NewSession ==
    [cats_new |-> {}, photos_new |-> {}, cats_dirty |-> {},
     cats_deleted |-> {}, photos_deleted |-> {}]

\* What the session's transaction sees: the committed rows and its own work.
ViewCats(db, sess) ==
    {c \in db.cats : c.id \notin sess.cats_deleted \cup CatIds(sess.cats_dirty)}
    \cup sess.cats_dirty \cup sess.cats_new

ViewPhotos(db, sess) ==
    {p \in db.photos : p.id \notin sess.photos_deleted} \cup sess.photos_new

\* photos.cat_id = ForeignKey("cats.id")
ForeignKey(cats, photos) == \A p \in photos : p.cat_id \in CatIds(cats)

\* commit(): the pending work reaches the committed rows, or the driver
\* raises (a foreign key violated; an UPDATE or DELETE of a row that is
\* gone) and nothing of it does.
CommitOk(db, sess) ==
    /\ ForeignKey(ViewCats(db, sess), ViewPhotos(db, sess))
    /\ CatIds(sess.cats_dirty) \cup sess.cats_deleted \subseteq CatIds(db.cats)
    /\ sess.photos_deleted \subseteq {p.id : p \in db.photos}

Commit(db, sess) ==
    [db EXCEPT !.cats = ViewCats(db, sess), !.photos = ViewPhotos(db, sess)]

\* select(Cat).filter(Cat.id == cat_id) ... .first(), and db.get(Cat, id)
HasCat(cats, cat_id) == cat_id \in CatIds(cats)

TheCat(cats, cat_id) == CHOOSE c \in cats : c.id = cat_id

HasPhoto(photos, photo_id) == photo_id \in {p.id : p \in photos}

ThePhoto(photos, photo_id) == CHOOSE p \in photos : p.id = photo_id

\* get_cat and get_photo: the row, or HTTPException(404)
get_cat(db, cat_id) == IF HasCat(db.cats, cat_id) THEN "ok" ELSE "404"

get_photo(db, photo_id) == IF HasPhoto(db.photos, photo_id) THEN "ok" ELSE "404"

PhotosOf(photos, cat_id) == {p \in photos : p.cat_id = cat_id}

\* One awaited commit(): call n of the request's database calls.
CommitStep(db, sess, fault, n) ==
    IF DbRaises(fault, n) \/ ~CommitOk(db, sess)
    THEN [db |-> db, err |-> "DBError"]
    ELSE [db |-> Commit(db, sess), err |-> "none"]

\* ------------------------------------------------------------- the service
\* What a request leaves behind: the committed rows, the external store,
\* the status it ends with, the stage that failed ("-" when none did), what
\* the gateway answered and what made it fail ("-" when it was not called),
\* the remote calls made, and the cat the request was about.
Outcome(db, drive, result, stage, gw, cause, calls, cat_id) ==
    [db |-> db, drive |-> drive, result |-> result, stage |-> stage,
     gw |-> gw, cause |-> cause, calls |-> calls, cat_id |-> cat_id]

CatCreates ==
    [name : Names, age : {2}, gender : Genders, about : Abouts, sterilized : {TRUE}]

NewCat(id, cat, now) ==
    [id |-> id, name |-> cat.name, age |-> cat.age, gender |-> cat.gender,
     about |-> cat.about, sterilized |-> cat.sterilized, registered_at |-> now,
     views |-> 0, google_folder_id |-> None]

\* create_cat: db.add(Cat(...)); flush(). The row is pending, not committed.
create_cat_commits(db, sess, cat, now) ==
    [db |-> [db EXCEPT !.seqCat = @ + 1, !.cats = @ \cup {NewCat(db.seqCat, cat, now)}],
     sess |-> [sess EXCEPT !.cats_dirty = @ \cup {NewCat(db.seqCat, cat, now)}]]

create_cat(db, sess, cat, now) ==
    [db |-> [db EXCEPT !.seqCat = @ + 1],
     sess |-> [sess EXCEPT !.cats_new = @ \cup {NewCat(db.seqCat, cat, now)}]]

\* The three checks of upload_photos, in the order of lines 84, 88, 94.
TooMany(files) == Len(files.items) > MaxPhotos

TooBig(files) ==
    \E i \in 1..Len(files.items) :
        files.items[i].image /\ files.items[i].size > MaxPhotoSize

BadType(files) ==
    \E i \in 1..Len(files.items) : Lower(files.items[i].ext) \notin allowed_extensions

\* PhotoCreate(url, cat_id, google_file_id = url.split("=")[1]): the rows of
\* the first k urls, with ids from the photos sequence.
PhotoRows(db, urls, cat_id, k) ==
    {[id |-> db.seqPhoto + i - 1, url |-> urls[i], cat_id |-> cat_id,
      google_file_id |-> google_file_id(urls[i])] : i \in 1..k}

UpFail(db, sess, drive, err, stage, gw, cause, calls) ==
    [db |-> db, sess |-> sess, drive |-> drive, err |-> err, stage |-> stage,
     gw |-> gw, cause |-> cause, calls |-> calls, folder_id |-> None, dbcalls |-> 0]

\* lines 103-120, after the gateway: urls, folder_id = None is a TypeError;
\* then db.add + flush() per url, database calls dbbase + 1 ...
InsertPhotos(db, sess, gw, cat_id, fault, dbbase) ==
    LET n == Len(gw.urls)
        hit == fault.where = "db" /\ fault.at > dbbase /\ fault.at <= dbbase + n
    IN  IF gw.out = "None"
        THEN UpFail(db, sess, gw.drive, "TypeError", "remote", gw.out, gw.cause, gw.calls)
        ELSE IF gw.out # "ok"
        THEN UpFail(db, sess, gw.drive, gw.out, "remote", gw.out, gw.cause, gw.calls)
        ELSE IF gw.urls = <<>> \/ gw.folder_id = None
        THEN UpFail(db, sess, gw.drive, "ValueError", "remote", gw.out, gw.cause, gw.calls)
        ELSE IF hit
        THEN UpFail([db EXCEPT !.seqPhoto = @ + (fault.at - dbbase - 1)], sess, gw.drive,
                    "DBError", "photo_insert", gw.out, gw.cause, gw.calls)
        ELSE [db |-> [db EXCEPT !.seqPhoto = @ + n],
              sess |-> [sess EXCEPT !.photos_new = @ \cup PhotoRows(db, gw.urls, cat_id, n)],
              drive |-> gw.drive, err |-> "none", stage |-> "-", gw |-> gw.out,
              cause |-> gw.cause, calls |-> gw.calls, folder_id |-> gw.folder_id,
              dbcalls |-> dbbase + n]

\* upload_photos: validate, upload, insert. dbbase: the database calls made
\* before.
upload_photos(db, sess, drive, files, cat_id, cat_name, fault, ord, dbbase) ==
    IF TooMany(files)
    THEN UpFail(db, sess, drive, "ValueError", "validation", "-", "-", 0)
    ELSE IF TooBig(files)
    THEN UpFail(db, sess, drive, "ValueError", "validation", "-", "-", 0)
    ELSE IF BadType(files)
    THEN UpFail(db, sess, drive, "400", "validation", "-", "-", 0)
    ELSE InsertPhotos(db, sess,
                      upload_photos_to_google_drive(drive, files, cat_id, cat_name, fault, ord),
                      cat_id, fault, dbbase)

\* cat.google_folder_id = folder_id, on a pending or on a committed row.
FolderNotSet(db, sess, cat_id, folder_id) == sess

SetFolder(db, sess, cat_id, folder_id) ==
    IF HasCat(sess.cats_new, cat_id)
    THEN [sess EXCEPT !.cats_new =
            {IF c.id = cat_id THEN [c EXCEPT !.google_folder_id = folder_id] ELSE c : c \in @}]
    ELSE [sess EXCEPT !.cats_dirty =
            {c \in @ : c.id # cat_id} \cup
            {[TheCat(ViewCats(db, sess), cat_id) EXCEPT !.google_folder_id = folder_id]}]

\* refresh(db_cat), line 144: database call n + 1, after the commit c.
Refreshed(c, db, drive, fault, n, gw, cause, calls, cat_id) ==
    IF c.err # "none"
    THEN Outcome(db, drive, c.err, "commit", gw, cause, calls, cat_id)
    ELSE IF DbRaises(fault, n + 1)
    THEN Outcome(c.db, drive, "DBError", "refresh", gw, cause, calls, cat_id)
    ELSE Outcome(c.db, drive, "ok", "-", gw, cause, calls, cat_id)

\* commit() and refresh(db_cat), lines 143-144: database calls n and n + 1.
CommitAndRefresh(db, sess, drive, fault, n, gw, cause, calls, cat_id) ==
    Refreshed(CommitStep(db, sess, fault, n), db, drive, fault, n, gw, cause, calls, cat_id)

\* lines 139-148, after upload_photos.
CreateAfterUpload(u, cat_id, fault) ==
    IF u.err # "none"
    THEN Outcome(u.db, u.drive, u.err, u.stage, u.gw, u.cause, u.calls, cat_id)
    ELSE CommitAndRefresh(u.db, SetFolder(u.db, u.sess, cat_id, u.folder_id), u.drive,
                          fault, u.dbcalls + 1, u.gw, u.cause, u.calls, cat_id)

\* lines 137-148, after create_cat: if files: ...
CreateAfterInsert(r, cat_id, drive, cat, files, fault, ord) ==
    IF files.isNone \/ files.items = <<>>
    THEN CommitAndRefresh(r.db, r.sess, drive, fault, 2, "-", "-", 0, cat_id)
    ELSE CreateAfterUpload(
            upload_photos(r.db, r.sess, drive, files, cat_id, cat.name, fault, ord, 1),
            cat_id, fault)

\* Every except branch: rollback() drops the session's pending work, and
\* the exception is raised again.
create_cat_with_photos(db, drive, cat, files, now, fault, ord) ==
    IF DbRaises(fault, 1)
    THEN Outcome(db, drive, "DBError", "cat_insert", "-", "-", 0, None)
    ELSE CreateAfterInsert(create_cat(db, NewSession, cat, now), db.seqCat, drive, cat,
                           files, fault, ord)

\* lines 181-183: cat.google_folder_id = google_folder_id; commit().
AddAfterFolder(c2, gw, cat_id) ==
    IF c2.err # "none"
    THEN Outcome(c2.db, gw.drive, c2.err, "commit_folder", gw.out, gw.cause, gw.calls, cat_id)
    ELSE Outcome(c2.db, gw.drive, "ok", "-", gw.out, gw.cause, gw.calls, cat_id)

\* lines 179-183, after the first commit().
AddAfterCommit(c1, gw, cat_id, fault) ==
    IF c1.err # "none"
    THEN Outcome(c1.db, gw.drive, c1.err, "commit", gw.out, gw.cause, gw.calls, cat_id)
    ELSE AddAfterFolder(
            CommitStep(c1.db, SetFolder(c1.db, NewSession, cat_id, gw.folder_id), fault, 3),
            gw, cat_id)

\* lines 164-183, after the gateway: urls, google_folder_id = None is a
\* TypeError; then add_all + commit(), database call 2.
AddAfterUpload(db, gw, cat_id, fault) ==
    IF gw.out = "None"
    THEN Outcome(db, gw.drive, "TypeError", "remote", gw.out, gw.cause, gw.calls, cat_id)
    ELSE IF gw.out # "ok"
    THEN Outcome(db, gw.drive, gw.out, "remote", gw.out, gw.cause, gw.calls, cat_id)
    ELSE AddAfterCommit(
            CommitStep([db EXCEPT !.seqPhoto = @ + Len(gw.urls)],
                       [NewSession EXCEPT
                           !.photos_new = PhotoRows(db, gw.urls, cat_id, Len(gw.urls))],
                       fault, 2),
            gw, cat_id, fault)

\* add_photos_for_the_cat: get_cat, upload, add_all + commit(), then the
\* folder id + commit(). It calls the gateway itself, not upload_photos.
add_photos_for_the_cat(db, drive, files, cat_id, fault, ord) ==
    IF DbRaises(fault, 1)
    THEN Outcome(db, drive, "DBError", "lookup", "-", "-", 0, cat_id)
    ELSE IF get_cat(db, cat_id) # "ok"
    THEN Outcome(db, drive, get_cat(db, cat_id), "lookup", "-", "-", 0, cat_id)
    ELSE AddAfterUpload(
            db,
            upload_photos_to_google_drive(drive, files, cat_id, TheCat(db.cats, cat_id).name,
                                          fault, ord),
            cat_id, fault)

\* lines 211-217, after the gateway. A gateway call that returns, returns
\* None: the commit (database call 3) follows.
DeleteAfterDrive(db, sess, gw, cat_id, fault) ==
    IF gw.out \notin {"ok", "None"}
    THEN Outcome(db, gw.drive, gw.out, "remote", gw.out, gw.cause, gw.calls, cat_id)
    ELSE IF CommitStep(db, sess, fault, 3).err # "none"
    THEN Outcome(db, gw.drive, "DBError", "commit", gw.out, gw.cause, gw.calls, cat_id)
    ELSE Outcome(CommitStep(db, sess, fault, 3).db, gw.drive, "ok", "-", gw.out, gw.cause,
                 gw.calls, cat_id)

\* delete_cat: db.get, select the photos, db.delete each and the cat (all
\* pending), the gateway, commit().
delete_cat(db, drive, cat_id, fault, ord) ==
    IF DbRaises(fault, 1)
    THEN Outcome(db, drive, "DBError", "lookup", "-", "-", 0, cat_id)
    ELSE IF ~HasCat(db.cats, cat_id)
    THEN Outcome(db, drive, "404", "lookup", "-", "-", 0, cat_id)
    ELSE IF DbRaises(fault, 2)
    THEN Outcome(db, drive, "DBError", "lookup", "-", "-", 0, cat_id)
    ELSE DeleteAfterDrive(
            db,
            [NewSession EXCEPT
                !.photos_deleted = {p.id : p \in PhotosOf(db.photos, cat_id)},
                !.cats_deleted = {cat_id}],
            delete_photos_from_drive(drive, cat_id, TheCat(db.cats, cat_id).name, fault, ord),
            cat_id, fault)

\* A CatUpdate: the fields that were set, and their values. CatUpdate is
\* CatBase, whose five fields are all required.
CatFields == {"name", "age", "gender", "about", "sterilized"}

CatUpdates ==
    [fields_set : {CatFields}, name : Names, age : Ages, gender : Genders,
     about : Abouts, sterilized : {TRUE}]

\* for key, value in cat_update.dict(exclude_unset=True).items(): setattr
Updated(db_cat, cat_update) ==
    [db_cat EXCEPT
        !.name = IF "name" \in cat_update.fields_set THEN cat_update.name ELSE @,
        !.age = IF "age" \in cat_update.fields_set THEN cat_update.age ELSE @,
        !.gender = IF "gender" \in cat_update.fields_set THEN cat_update.gender ELSE @,
        !.about = IF "about" \in cat_update.fields_set THEN cat_update.about ELSE @,
        !.sterilized = IF "sterilized" \in cat_update.fields_set
                       THEN cat_update.sterilized ELSE @]

\* lines 231-234, after the commit c: refresh(), database call n + 1.
UpdateRefreshed(c, db, db_cat, cat_update, fault, n) ==
    IF c.err # "none"
    THEN [db |-> db, err |-> c.err, stage |-> "commit", db_cat |-> db_cat]
    ELSE IF DbRaises(fault, n + 1)
    THEN [db |-> c.db, err |-> "DBError", stage |-> "refresh", db_cat |-> db_cat]
    ELSE [db |-> c.db, err |-> "none", stage |-> "-", db_cat |-> Updated(db_cat, cat_update)]

\* update_cat_in_db: setattr, commit() (database call n), refresh().
update_cat_in_db_flushes(db, db_cat, cat_update, fault, n) ==
    [db |-> db, err |-> "none", stage |-> "-", db_cat |-> Updated(db_cat, cat_update)]

update_cat_in_db(db, db_cat, cat_update, fault, n) ==
    UpdateRefreshed(
        CommitStep(db, [NewSession EXCEPT !.cats_dirty = {Updated(db_cat, cat_update)}],
                   fault, n),
        db, db_cat, cat_update, fault, n)

\* lines 259-271, after the rename: if not updated_folder: HTTPException(500);
\* commit(), database call 4.
UpdateAfterRename(u, gw, cat_id, fault) ==
    IF gw.out = "None"
    THEN Outcome(u.db, gw.drive, "500", "remote", gw.out, gw.cause, gw.calls, cat_id)
    ELSE IF gw.out # "ok"
    THEN Outcome(u.db, gw.drive, gw.out, "remote", gw.out, gw.cause, gw.calls, cat_id)
    ELSE IF DbRaises(fault, 4)
    THEN Outcome(u.db, gw.drive, "DBError", "commit", gw.out, gw.cause, gw.calls, cat_id)
    ELSE Outcome(u.db, gw.drive, "ok", "-", gw.out, gw.cause, gw.calls, cat_id)

\* lines 252-271, after update_cat_in_db: the rename of the folder.
UpdateAfterCommit(u, drive, cat_id, fault) ==
    IF u.err # "none"
    THEN Outcome(u.db, drive, u.err, u.stage, "-", "-", 0, cat_id)
    ELSE UpdateAfterRename(
            u,
            update_google_folder_name(drive, u.db_cat.google_folder_id, cat_id,
                                      u.db_cat.name, fault),
            cat_id, fault)

\* update_cat: get_cat, update_cat_in_db, the folder rename, commit().
update_cat(db, drive, cat_id, cat_update, fault) ==
    IF DbRaises(fault, 1)
    THEN Outcome(db, drive, "DBError", "lookup", "-", "-", 0, cat_id)
    ELSE IF get_cat(db, cat_id) # "ok"
    THEN Outcome(db, drive, get_cat(db, cat_id), "lookup", "-", "-", 0, cat_id)
    ELSE UpdateAfterCommit(
            update_cat_in_db(db, TheCat(db.cats, cat_id), cat_update, fault, 2),
            drive, cat_id, fault)

\* if photo.cat_id != cat.id: HTTPException(400)
AnyOwner(photo, cat) == TRUE

BelongsTo(photo, cat) == photo.cat_id = cat.id

\* lines 298-304, after the remote file: db.delete + commit(), database
\* call 3.
DeletePhotoAfterDrive(db, gw, photo_id, cat_id, fault) ==
    IF gw.out \notin {"ok", "None", "-"}
    THEN Outcome(db, gw.drive, gw.out, "remote", gw.out, gw.cause, gw.calls, cat_id)
    ELSE IF CommitStep(db, [NewSession EXCEPT !.photos_deleted = {photo_id}], fault, 3).err
            # "none"
    THEN Outcome(db, gw.drive, "DBError", "commit", gw.out, gw.cause, gw.calls, cat_id)
    ELSE Outcome(CommitStep(db, [NewSession EXCEPT !.photos_deleted = {photo_id}], fault, 3).db,
                 gw.drive, "ok", "-", gw.out, gw.cause, gw.calls, cat_id)

\* lines 284-304, with the cat and the photo found.
DeleteOwnedPhoto(db, drive, photo, cat, fault) ==
    IF ~BelongsTo(photo, cat)
    THEN Outcome(db, drive, "400", "ownership", "-", "-", 0, cat.id)
    ELSE DeletePhotoAfterDrive(
            db,
            IF photo.google_file_id # None
            THEN delete_google_drive_file(drive, photo.google_file_id, fault)
            ELSE GwOut(drive, "-", "-", 0),
            photo.id, cat.id, fault)

\* delete_photo: get_cat, get_photo, the ownership check, the remote file,
\* db.delete + commit().
delete_photo(db, drive, photo_id, cat_id, fault) ==
    IF DbRaises(fault, 1)
    THEN Outcome(db, drive, "DBError", "lookup", "-", "-", 0, cat_id)
    ELSE IF get_cat(db, cat_id) # "ok"
    THEN Outcome(db, drive, get_cat(db, cat_id), "lookup", "-", "-", 0, cat_id)
    ELSE IF DbRaises(fault, 2)
    THEN Outcome(db, drive, "DBError", "lookup", "-", "-", 0, cat_id)
    ELSE IF get_photo(db, photo_id) # "ok"
    THEN Outcome(db, drive, get_photo(db, photo_id), "lookup", "-", "-", 0, cat_id)
    ELSE DeleteOwnedPhoto(db, drive, ThePhoto(db.photos, photo_id), TheCat(db.cats, cat_id),
                          fault)

\* ------------------------------------------------- one request at a time
VARIABLES db, drive, last, steps, procs

vars == <<db, drive, last, steps, procs>>

\* The requests in flight at once, each with a session of its own.
Procs == {1, 2}

\* A request's position and what it holds between two awaited database
\* calls: the cat and photo it named and the rows it read (the cat's name,
\* the photos it selected, the photo's remote file), its files, and the
\* folder the gateway gave it.
Idle ==
    [pc |-> "idle", cat_id |-> None, photo_id |-> None, name |-> "-", sel |-> {},
     google_file_id |-> None, files |-> NoFiles, folder_id |-> None]

\* What a request that is no update carries in place of a CatUpdate.
NoUpdate ==
    [fields_set |-> {}, name |-> "-", age |-> 0, gender |-> "-", about |-> "-",
     sterilized |-> FALSE]

\* Request bodies that leave fields out.
PartialUpdates ==
    {[NoUpdate EXCEPT !.fields_set = {"name"}, !.name = "Leo"],
     [NoUpdate EXCEPT !.fields_set = {"age"}, !.age = 3]}

\* The router's handler: the body is validated as a CatUpdate, whose five
\* fields are all required (422 when one is missing), then update_cat.
update_cat_by_id(d, dr, cat_id, cat_update, fault) ==
    IF cat_update.fields_set # CatFields
    THEN Outcome(d, dr, "422", "validation", "-", "-", 0, cat_id)
    ELSE update_cat(d, dr, cat_id, cat_update, fault)

\* last: the request that ended last: its outcome, the photo it named, the
\* fields, name and age of its CatUpdate, and of the files it carried how many they
\* were (-1 for None) and whether one of them had an extension that is not
\* allowed.
Last(op, o, files, photo_id, cat_update) ==
    [op |-> op, result |-> o.result, stage |-> o.stage, gw |-> o.gw, cause |-> o.cause,
     calls |-> o.calls, cat_id |-> o.cat_id, photo_id |-> photo_id,
     upd_fields |-> cat_update.fields_set,
     upd_name |-> cat_update.name, upd_age |-> cat_update.age,
     nfiles |-> IF files.isNone THEN -1 ELSE Len(files.items),
     bad_type |-> BadType(files)]

\* The listing order shows only where a lookup by name matches two folders
\* or a folder holds two files.
OrdersFor(d) ==
    IF \/ \E f, g \in d.folders : f.id # g.id /\ f.name = g.name
       \/ \E f, g \in d.files : f.id # g.id /\ f.parent = g.parent
    THEN Orders ELSE {"asc"}

Init ==
    /\ db = EmptyDb
    /\ drive = EmptyDrive
    /\ last = Last("init", Outcome(db, drive, "ok", "-", "-", "-", 0, None),
                   NoFiles, None, NoUpdate)
    /\ steps = 0
    /\ procs = [p \in Procs |-> Idle]

Ends(op, o, files, photo_id, cat_update) ==
    /\ steps < MaxSteps
    /\ db' = o.db
    /\ drive' = o.drive
    /\ last' = Last(op, o, files, photo_id, cat_update)
    /\ steps' = steps + 1
    /\ UNCHANGED procs

CreateCatWithPhotos(FileLists) ==
    \E cat \in CatCreates, files \in FileLists, now \in Times, fault \in Faults,
       ord \in OrdersFor(drive) :
        Ends("create_cat_with_photos",
             create_cat_with_photos(db, drive, cat, files, now, fault, ord),
             files, None, NoUpdate)

AddPhotosForTheCat(FileLists) ==
    \E cat_id \in 1..MaxCatId, files \in FileLists, fault \in Faults,
       ord \in OrdersFor(drive) :
        Ends("add_photos_for_the_cat",
             add_photos_for_the_cat(db, drive, files, cat_id, fault, ord),
             files, None, NoUpdate)

UpdateCat ==
    \E cat_id \in 1..MaxCatId, cat_update \in CatUpdates \cup PartialUpdates,
       fault \in Faults :
        Ends("update_cat", update_cat_by_id(db, drive, cat_id, cat_update, fault),
             NoFiles, None, cat_update)

DeletePhoto ==
    \E photo_id \in 1..MaxPhotoId, cat_id \in 1..MaxCatId, fault \in Faults :
        Ends("delete_photo", delete_photo(db, drive, photo_id, cat_id, fault),
             NoFiles, photo_id, NoUpdate)

DeleteCat ==
    \E cat_id \in 1..MaxCatId, fault \in Faults, ord \in OrdersFor(drive) :
        Ends("delete_cat", delete_cat(db, drive, cat_id, fault, ord),
             NoFiles, None, NoUpdate)

Next ==
    \/ CreateCatWithPhotos(SmallFileLists)
    \/ AddPhotosForTheCat(SmallFileLists)
    \/ UpdateCat
    \/ DeletePhoto
    \/ DeleteCat

Spec == Init /\ [][Next]_vars

\* The same requests with the file lists around the maximum of 10.
NextLimit ==
    \/ CreateCatWithPhotos(LimitFileLists)
    \/ AddPhotosForTheCat(LimitFileLists)

SpecLimit == Init /\ [][NextLimit]_vars

\* ------------------------------------------------ requests that interleave
\* Each request runs in a transaction of its own (READ COMMITTED) and gives
\* way to the others at its awaited database calls; here a call of the
\* gateway runs with the code around it (SpecRace takes it apart).
ConcFileLists == {Given(<<GoodFile>>)}

\* Cat.photos = relationship("Photo", back_populates="cat"), no delete
\* cascade: the flush of a deleted Cat loads its photos and sets the cat_id
\* of those not deleted themselves to NULL.
Nullify(photos, cat_id) ==
    {IF p.cat_id = cat_id THEN [p EXCEPT !.cat_id = None] ELSE p : p \in photos}

\* A DELETE or UPDATE by primary key that matched no row: StaleDataError, or
\* for a DELETE only a warning, by the library's version.
StaleChoices(stale) == IF stale THEN BOOLEAN ELSE {FALSE}

Begins(p) == procs[p].pc = "idle" /\ steps < MaxSteps /\ steps' = steps + 1

Goes(p, local) == procs' = [procs EXCEPT ![p] = local]

Done(p, op, o, files, photo_id) ==
    /\ db' = o.db
    /\ drive' = o.drive
    /\ last' = Last(op, o, files, photo_id, NoUpdate)
    /\ Goes(p, Idle)

\* create_cat_with_photos reads and writes only rows of its own transaction.
ConcCreate(p) ==
    \E cat \in CatCreates, files \in ConcFileLists \cup {NoFiles}, now \in Times :
        /\ Begins(p)
        /\ Done(p, "create_cat_with_photos",
                create_cat_with_photos(db, drive, cat, files, now, NoFault, "asc"),
                files, None)

\* add_photos_for_the_cat: get_cat
AddGetCat(p) ==
    \E cat_id \in 1..MaxCatId, files \in ConcFileLists :
        /\ Begins(p)
        /\ IF get_cat(db, cat_id) # "ok"
           THEN Done(p, "add_photos_for_the_cat",
                     Outcome(db, drive, "404", "lookup", "-", "-", 0, cat_id), files, None)
           ELSE /\ Goes(p, [Idle EXCEPT !.pc = "add_upload", !.cat_id = cat_id,
                                        !.name = TheCat(db.cats, cat_id).name,
                                        !.files = files])
                /\ UNCHANGED <<db, drive, last>>

\* add_photos_for_the_cat: the upload, add_all and the first commit
AddCommitPhotos(p) ==
    LET l == procs[p]
        gw == upload_photos_to_google_drive(drive, l.files, l.cat_id, l.name, NoFault, "asc")
        rows == PhotoRows(db, gw.urls, l.cat_id, Len(gw.urls))
        sent == [db EXCEPT !.seqPhoto = @ + Len(gw.urls)]
    IN /\ l.pc = "add_upload"
       /\ UNCHANGED steps
       /\ IF ~ForeignKey(db.cats, rows)
          THEN Done(p, "add_photos_for_the_cat",
                    Outcome(sent, gw.drive, "DBError", "commit", gw.out, gw.cause,
                            gw.calls, l.cat_id), l.files, None)
          ELSE /\ db' = [sent EXCEPT !.photos = @ \cup rows]
               /\ drive' = gw.drive
               /\ Goes(p, [l EXCEPT !.pc = "add_folder", !.folder_id = gw.folder_id])
               /\ UNCHANGED last

\* add_photos_for_the_cat: cat.google_folder_id and the second commit
AddCommitFolder(p) ==
    LET l == procs[p]
        same == HasCat(db.cats, l.cat_id)
                    /\ TheCat(db.cats, l.cat_id).google_folder_id = l.folder_id
    IN /\ l.pc = "add_folder"
       /\ UNCHANGED steps
       /\ IF ~HasCat(db.cats, l.cat_id)
          THEN Done(p, "add_photos_for_the_cat",
                    Outcome(db, drive, "DBError", "commit_folder", "ok", "none", 0, l.cat_id),
                    l.files, None)
          ELSE Done(p, "add_photos_for_the_cat",
                    Outcome([db EXCEPT !.cats =
                                {IF c.id = l.cat_id
                                 THEN [c EXCEPT !.google_folder_id = l.folder_id]
                                 ELSE c : c \in @}],
                            drive, "ok", "-", "ok", "none", 0, l.cat_id),
                    l.files, None)

\* delete_cat: db.get(Cat, cat_id)
DeleteGetCat(p) ==
    \E cat_id \in 1..MaxCatId :
        /\ Begins(p)
        /\ IF ~HasCat(db.cats, cat_id)
           THEN Done(p, "delete_cat",
                     Outcome(db, drive, "404", "lookup", "-", "-", 0, cat_id), NoFiles, None)
           ELSE /\ Goes(p, [Idle EXCEPT !.pc = "delete_select", !.cat_id = cat_id,
                                        !.name = TheCat(db.cats, cat_id).name])
                /\ UNCHANGED <<db, drive, last>>

\* delete_cat: select(CatPhoto).where(CatPhoto.cat_id == cat_id)
DeleteSelectPhotos(p) ==
    /\ procs[p].pc = "delete_select"
    /\ Goes(p, [procs[p] EXCEPT !.pc = "delete_commit",
                                !.sel = {ph.id : ph \in PhotosOf(db.photos, procs[p].cat_id)}])
    /\ UNCHANGED <<db, drive, last, steps>>

\* delete_cat: the db.delete calls, delete_photos_from_drive and the commit
DeleteCommit(p) ==
    LET l == procs[p]
        gw == delete_photos_from_drive(drive, l.cat_id, l.name, NoFault, "asc")
        stale == ~HasCat(db.cats, l.cat_id)
                    \/ ~(l.sel \subseteq {ph.id : ph \in db.photos})
        kept == Nullify({ph \in db.photos : ph.id \notin l.sel}, l.cat_id)
    IN /\ l.pc = "delete_commit"
       /\ UNCHANGED steps
       /\ \E raises \in StaleChoices(stale) :
            IF gw.out \notin {"ok", "None"}
            THEN Done(p, "delete_cat",
                      Outcome(db, gw.drive, gw.out, "remote", gw.out, gw.cause, gw.calls,
                              l.cat_id), NoFiles, None)
            ELSE IF raises
            THEN Done(p, "delete_cat",
                      Outcome(db, gw.drive, "DBError", "commit", gw.out, gw.cause, gw.calls,
                              l.cat_id), NoFiles, None)
            ELSE Done(p, "delete_cat",
                      Outcome([db EXCEPT !.cats = {c \in @ : c.id # l.cat_id},
                                         !.photos = kept],
                              gw.drive, "ok", "-", gw.out, gw.cause, gw.calls, l.cat_id),
                      NoFiles, None)

\* delete_photo: get_cat, get_photo and the ownership check
DeletePhotoGet(p) ==
    \E photo_id \in 1..MaxPhotoId, cat_id \in 1..MaxCatId :
        /\ Begins(p)
        /\ IF get_cat(db, cat_id) # "ok" \/ get_photo(db, photo_id) # "ok"
           THEN Done(p, "delete_photo",
                     Outcome(db, drive, "404", "lookup", "-", "-", 0, cat_id),
                     NoFiles, photo_id)
           ELSE IF ~BelongsTo(ThePhoto(db.photos, photo_id), TheCat(db.cats, cat_id))
           THEN Done(p, "delete_photo",
                     Outcome(db, drive, "400", "ownership", "-", "-", 0, cat_id),
                     NoFiles, photo_id)
           ELSE /\ Goes(p, [Idle EXCEPT !.pc = "photo_commit", !.cat_id = cat_id,
                                        !.photo_id = photo_id,
                                        !.google_file_id =
                                            ThePhoto(db.photos, photo_id).google_file_id])
                /\ UNCHANGED <<db, drive, last>>

\* delete_photo: delete_google_drive_file, db.delete and the commit
DeletePhotoCommit(p) ==
    LET l == procs[p]
        gw == delete_google_drive_file(drive, l.google_file_id, NoFault)
    IN /\ l.pc = "photo_commit"
       /\ UNCHANGED steps
       /\ \E raises \in StaleChoices(~HasPhoto(db.photos, l.photo_id)) :
            IF gw.out \notin {"ok", "None"}
            THEN Done(p, "delete_photo",
                      Outcome(db, gw.drive, gw.out, "remote", gw.out, gw.cause, gw.calls,
                              l.cat_id), NoFiles, l.photo_id)
            ELSE IF raises
            THEN Done(p, "delete_photo",
                      Outcome(db, gw.drive, "DBError", "commit", gw.out, gw.cause, gw.calls,
                              l.cat_id), NoFiles, l.photo_id)
            ELSE Done(p, "delete_photo",
                      Outcome([db EXCEPT !.photos = {ph \in @ : ph.id # l.photo_id}],
                              gw.drive, "ok", "-", gw.out, gw.cause, gw.calls, l.cat_id),
                      NoFiles, l.photo_id)

NextConc ==
    \E p \in Procs :
        \/ ConcCreate(p)
        \/ AddGetCat(p)
        \/ AddCommitPhotos(p)
        \/ AddCommitFolder(p)
        \/ DeleteGetCat(p)
        \/ DeleteSelectPhotos(p)
        \/ DeleteCommit(p)
        \/ DeletePhotoGet(p)
        \/ DeletePhotoCommit(p)

SpecConc == Init /\ [][NextConc]_vars

\* --------------------------------------- uploads that interleave remotely
\* add_photos_for_the_cat served by two workers: the remote calls of
\* upload_photos_to_google_drive are separate requests to the store, and
\* those of the two uploads interleave. procs[p].folder_id is the gateway's
\* google_folder_id: the root folder's id, then the cat folder's.

\* upload_photos_to_google_drive: files().list for "Photos of cats"
FindRoot(p) ==
    LET l == procs[p]
        found == FoundFolders(drive, RootName, None)
    IN /\ l.pc = "add_upload"
       /\ \E ord \in OrdersFor(drive) :
            Goes(p, IF found = {}
                    THEN [l EXCEPT !.pc = "create_root"]
                    ELSE [l EXCEPT !.pc = "find_cat_folder",
                                   !.folder_id = First(found, ord)])
       /\ UNCHANGED <<db, drive, last, steps>>

\* upload_photos_to_google_drive: files().create of "Photos of cats"
CreateRoot(p) ==
    /\ procs[p].pc = "create_root"
    /\ drive' = CreateFolder(drive, RootName, None)
    /\ Goes(p, [procs[p] EXCEPT !.pc = "find_cat_folder", !.folder_id = drive.next])
    /\ UNCHANGED <<db, last, steps>>

\* upload_photos_to_google_drive: files().list for the cat's folder
FindCatFolder(p) ==
    LET l == procs[p]
        found == FoundFolders(drive, CatFolderName(l.cat_id, l.name), l.folder_id)
    IN /\ l.pc = "find_cat_folder"
       /\ \E ord \in OrdersFor(drive) :
            Goes(p, IF found = {}
                    THEN [l EXCEPT !.pc = "create_cat_folder"]
                    ELSE [l EXCEPT !.pc = "upload", !.folder_id = First(found, ord)])
       /\ UNCHANGED <<db, drive, last, steps>>

\* upload_photos_to_google_drive: files().create of the cat's folder
CreateCatFolder(p) ==
    LET l == procs[p]
    IN /\ l.pc = "create_cat_folder"
       /\ drive' = CreateFolder(drive, CatFolderName(l.cat_id, l.name), l.folder_id)
       /\ Goes(p, [l EXCEPT !.pc = "upload", !.folder_id = drive.next])
       /\ UNCHANGED <<db, last, steps>>

\* The upload loop and the return, then add_all and the first commit of
\* add_photos_for_the_cat.
UploadAndCommitPhotos(p) ==
    LET l == procs[p]
        gw == Uploaded(UploadFiles(drive, l.folder_id, Len(l.files.items), NoFault, 0),
                       l.folder_id)
        rows == PhotoRows(db, gw.urls, l.cat_id, Len(gw.urls))
        sent == [db EXCEPT !.seqPhoto = @ + Len(gw.urls)]
    IN /\ l.pc = "upload"
       /\ UNCHANGED steps
       /\ IF ~ForeignKey(db.cats, rows)
          THEN Done(p, "add_photos_for_the_cat",
                    Outcome(sent, gw.drive, "DBError", "commit", gw.out, gw.cause,
                            gw.calls, l.cat_id), l.files, None)
          ELSE /\ db' = [sent EXCEPT !.photos = @ \cup rows]
               /\ drive' = gw.drive
               /\ Goes(p, [l EXCEPT !.pc = "add_folder"])
               /\ UNCHANGED last

NextRace ==
    \E p \in Procs :
        \/ ConcCreate(p)
        \/ AddGetCat(p)
        \/ FindRoot(p)
        \/ CreateRoot(p)
        \/ FindCatFolder(p)
        \/ CreateCatFolder(p)
        \/ UploadAndCommitPhotos(p)
        \/ AddCommitFolder(p)

SpecRace == Init /\ [][NextRace]_vars

\* ------------------------------------------------------------------ claims
IsUpload(op) == op \in {"create_cat_with_photos", "add_photos_for_the_cat"}

\* The class of error a failed rename reaches update_cat's caller as.
RenameErrorClass(cause) ==
    CASE cause = "http401" -> "401"
      [] cause = "http404" -> "404"
      [] OTHER -> "500"

\* C1: create_cat_with_photos commits only after the Cat insert, the
\* validation, the upload, every Photo insert and the folder id have
\* succeeded: a request that fails in any of them raises and leaves the
\* committed cats and photos as they were, and a request that committed
\* added exactly the new Cat, one Photo per file whose remote file exists
\* in the cat's folder, and the folder id when there were files.
C1_CreateIsAtomic ==
    [][last'.op = "create_cat_with_photos" =>
        /\ (last'.result # "ok" /\ last'.stage # "refresh")
              => (db'.cats = db.cats /\ db'.photos = db.photos)
        /\ last'.result = "ok" => db'.cats # db.cats
        /\ db'.cats # db.cats \/ db'.photos # db.photos =>
              /\ last'.stage \in {"-", "refresh"}
              /\ db.cats \subseteq db'.cats
              /\ db.photos \subseteq db'.photos
              /\ Cardinality(db'.cats \ db.cats) = 1
              /\ \A c \in db'.cats \ db.cats :
                    /\ c.id = last'.cat_id
                    /\ db'.photos \ db.photos = PhotosOf(db'.photos, c.id)
                    /\ Cardinality(PhotosOf(db'.photos, c.id))
                          = (IF last'.nfiles > 0 THEN last'.nfiles ELSE 0)
                    /\ (c.google_folder_id # None) <=> (last'.nfiles > 0)
                    /\ \A p \in PhotosOf(db'.photos, c.id) :
                          [id |-> p.google_file_id, parent |-> c.google_folder_id]
                              \in drive'.files
    ]_vars

\* A create whose upload succeeded and whose Photo insert failed: the files
\* are in the store, the Cat and its Photos are not in the database.
C1_Witness ==
    /\ last.op = "create_cat_with_photos"
    /\ last.stage = "photo_insert"
    /\ last.result = "DBError"
    /\ drive.files # {}
    /\ ~HasCat(db.cats, last.cat_id)
    /\ PhotosOf(db.photos, last.cat_id) = {}

\* C2: delete_cat of an existing cat, with or without photos, when the
\* store answers every call without error (and the database does), ends
\* with the Cat row and its Photo rows gone: get_cat then yields 404.
C2_DeleteCatRemoves ==
    [][(/\ last'.op = "delete_cat"
        /\ HasCat(db.cats, last'.cat_id)
        /\ last'.cause \notin RemoteKinds
        /\ last'.result # "DBError")
       => /\ ~HasCat(db'.cats, last'.cat_id)
          /\ PhotosOf(db'.photos, last'.cat_id) = {}
          /\ get_cat(db', last'.cat_id) = "404"
    ]_vars

\* C3: a delete_cat in which a step failed, a remote call of the gateway
\* included, raises and leaves the Cat row and its Photo rows committed.
C3_DeleteCatRollsBack ==
    [][(/\ last'.op = "delete_cat"
        /\ HasCat(db.cats, last'.cat_id)
        /\ (last'.result # "ok" \/ last'.cause \in RemoteKinds))
       => /\ last'.result # "ok"
          /\ db'.cats = db.cats
          /\ db'.photos = db.photos
    ]_vars

\* C4, as claimed: a Cat's google_folder_id is set if and only if it has a
\* Photo row.
C4_FolderIffPhotos ==
    \A c \in db.cats : (c.google_folder_id # None) <=> (PhotosOf(db.photos, c.id) # {})

\* C4, amended: a Cat comes to have Photo rows and no folder id only by an
\* add_photos_for_the_cat that committed the rows and failed at its second
\* commit, and a folder id that is set is never cleared (so a Cat without
\* Photo rows may have one).
C4_PhotosHaveFolder ==
    [][/\ \A c \in db'.cats :
            (PhotosOf(db'.photos, c.id) # {} /\ c.google_folder_id = None)
            => \/ /\ HasCat(db.cats, c.id)
                  /\ TheCat(db.cats, c.id).google_folder_id = None
                  /\ PhotosOf(db.photos, c.id) # {}
               \/ /\ last'.op = "add_photos_for_the_cat"
                  /\ last'.stage = "commit_folder"
                  /\ last'.cat_id = c.id
       /\ \A c \in db.cats :
            (c.google_folder_id # None /\ HasCat(db'.cats, c.id))
            => TheCat(db'.cats, c.id).google_folder_id # None
    ]_vars

\* add_photos_for_the_cat gave a cat without photos its first Photo row and
\* its folder id.
C4_Witness ==
    /\ last.op = "add_photos_for_the_cat"
    /\ last.result = "ok"
    /\ last.nfiles > 0
    /\ HasCat(db.cats, last.cat_id)
    /\ PhotosOf(db.photos, last.cat_id) # {}
    /\ TheCat(db.cats, last.cat_id).google_folder_id # None

\* C5: an upload with a file whose extension is not allowed is rejected
\* with a 400 and creates no Photo row, by create_cat_with_photos and by
\* add_photos_for_the_cat (of an existing cat; no remote or database fault).
C5_BadTypeRejected ==
    [][(/\ IsUpload(last'.op)
        /\ last'.bad_type
        /\ (last'.op = "add_photos_for_the_cat" => HasCat(db.cats, last'.cat_id))
        /\ last'.cause \notin RemoteKinds
        /\ last'.result # "DBError")
       => /\ last'.result = "400"
          /\ db'.photos = db.photos
    ]_vars

\* C6: an upload of more than 10 files is rejected before any remote call,
\* by create_cat_with_photos and by add_photos_for_the_cat (of an existing
\* cat).
C6_TooManyRejectedFirst ==
    [][(/\ IsUpload(last'.op)
        /\ last'.nfiles > MaxPhotos
        /\ (last'.op = "add_photos_for_the_cat" => HasCat(db.cats, last'.cat_id)))
       => /\ last'.result # "ok"
          /\ last'.calls = 0
          /\ drive' = drive
    ]_vars

\* C7: delete_photo of an existing photo with an existing cat that is not
\* its owner raises 400 (unless a lookup failed in the database), makes no
\* remote call and leaves the Photo row and the remote file in place.
C7_ForeignPhotoNotDeleted ==
    [][(/\ last'.op = "delete_photo"
        /\ HasCat(db.cats, last'.cat_id)
        /\ HasPhoto(db.photos, last'.photo_id)
        /\ ThePhoto(db.photos, last'.photo_id).cat_id # last'.cat_id)
       => /\ last'.stage # "lookup" => last'.result = "400"
          /\ last'.result # "ok"
          /\ last'.calls = 0
          /\ db' = db
          /\ drive' = drive
    ]_vars

\* The 400 of a delete_photo that named a photo of another cat: the row and
\* its remote file are still there.
C7_Witness ==
    /\ last.op = "delete_photo"
    /\ last.result = "400"
    /\ HasCat(db.cats, last.cat_id)
    /\ HasPhoto(db.photos, last.photo_id)
    /\ ThePhoto(db.photos, last.photo_id).cat_id # last.cat_id
    /\ ThePhoto(db.photos, last.photo_id).google_file_id \in {f.id : f \in drive.files}

\* C8: a gateway call that failed raises the error of its class: 401 for an
\* authentication failure, 404 for a folder or file not found remotely, 500
\* for any other remote failure; it never returns normally.
C8_GatewayErrorClasses ==
    /\ last.cause = "http401" => last.gw = "401"
    /\ last.cause \in {"http404", "missing"} => last.gw = "404"
    /\ last.cause \in {"http_other", "exception"} => last.gw = "500"

\* C9, as claimed: an update_cat whose rename failed after the commit raises
\* a 500 and the committed row keeps the new values.
C9_RenameFailureIs500 ==
    [][(last'.op = "update_cat" /\ last'.stage = "remote")
       => /\ last'.result = "500"
          /\ HasCat(db'.cats, last'.cat_id)
          /\ TheCat(db'.cats, last'.cat_id)
                = [TheCat(db.cats, last'.cat_id) EXCEPT
                      !.name = last'.upd_name, !.age = last'.upd_age]
    ]_vars

\* C9, amended: it raises the error of the failure's class (401, 404, or
\* 500 for any other failure) and the committed row keeps the new values.
C9_RenameFailureKeepsUpdate ==
    [][(last'.op = "update_cat" /\ last'.stage = "remote")
       => /\ last'.result = RenameErrorClass(last'.cause)
          /\ HasCat(db'.cats, last'.cat_id)
          /\ TheCat(db'.cats, last'.cat_id)
                = [TheCat(db.cats, last'.cat_id) EXCEPT
                      !.name = last'.upd_name, !.age = last'.upd_age]
    ]_vars

\* A rename that failed with a 401: the row has the new name, the folder in
\* the store the old one.
C9_Witness ==
    /\ last.op = "update_cat"
    /\ last.stage = "remote"
    /\ last.result = "401"
    /\ HasCat(db.cats, last.cat_id)
    /\ TheCat(db.cats, last.cat_id).name = last.upd_name
    /\ \E f \in drive.folders :
          /\ f.id = TheCat(db.cats, last.cat_id).google_folder_id
          /\ f.name # CatFolderName(last.cat_id, last.upd_name)

\* C10: in every committed state, whatever the order and the interleaving
\* of create_cat_with_photos, add_photos_for_the_cat, delete_photo and
\* delete_cat, the cat_id of every Photo row is the id of a Cat row.
C10_PhotoHasCat == \A ph \in db.photos : HasCat(db.cats, ph.cat_id)

\* C11: an update_cat of an existing cat with a partial field set changes
\* exactly the fields that are present in the update and leaves every other
\* attribute of the Cat, and its photos, unchanged.
C11_PartialUpdateApplied ==
    [][(/\ last'.op = "update_cat"
        /\ HasCat(db.cats, last'.cat_id)
        /\ last'.upd_fields # {}
        /\ last'.upd_fields # CatFields)
       => /\ HasCat(db'.cats, last'.cat_id)
          /\ TheCat(db'.cats, last'.cat_id)
                = [TheCat(db.cats, last'.cat_id) EXCEPT
                      !.name = IF "name" \in last'.upd_fields THEN last'.upd_name ELSE @,
                      !.age = IF "age" \in last'.upd_fields THEN last'.upd_age ELSE @]
          /\ db'.photos = db.photos
    ]_vars

\* C12: an update_cat (of an existing cat, with a body that is accepted and
\* no database failure) that leaves the name unchanged, or whose cat has no
\* folder in the external store, makes no remote call and succeeds, whatever
\* the state of the external store.
C12_RenameOnlyWhenNeeded ==
    [][(/\ last'.op = "update_cat"
        /\ last'.upd_fields = CatFields
        /\ HasCat(db.cats, last'.cat_id)
        /\ last'.result # "DBError"
        /\ \/ TheCat(db.cats, last'.cat_id).name = last'.upd_name
           \/ TheCat(db.cats, last'.cat_id).google_folder_id = None)
       => /\ last'.calls = 0
          /\ last'.result = "ok"
          /\ drive' = drive
    ]_vars

\* Two folders of one name under one parent.
Duplicated(f, g) == f.id # g.id /\ f.name = g.name /\ f.parent = g.parent

\* C13: the find-or-create of upload_photos_to_google_drive is not atomic:
\* an upload whose lookup found no folder creates one without looking
\* again, also when another upload has created that folder since, so two
\* uploads that interleave each create a folder of the same name under the
\* same parent.
C13_CreateWithoutLookingAgain ==
    [][\A p \in Procs :
        /\ (procs[p].pc = "create_root" /\ procs'[p].pc # "create_root")
              => drive'.folders = drive.folders
                    \cup {[id |-> drive.next, name |-> RootName, parent |-> None]}
        /\ (procs[p].pc = "create_cat_folder" /\ procs'[p].pc # "create_cat_folder")
              => drive'.folders = drive.folders
                    \cup {[id |-> drive.next,
                           name |-> CatFolderName(procs[p].cat_id, procs[p].name),
                           parent |-> procs[p].folder_id]}
        /\ (procs[p].pc \in {"create_root", "create_cat_folder"}
                /\ procs'[p].pc # procs[p].pc)
              => /\ drive.next \notin {f.id : f \in drive.folders}
                 /\ procs'[p].folder_id = drive.next
    ]_vars

\* Two uploads for one cat have each created the cat's folder.
C13_Witness ==
    \E f, g \in drive.folders :
        /\ Duplicated(f, g)
        /\ f.parent # None
        /\ \E c \in db.cats : f.name = CatFolderName(c.id, c.name)

====
